---- MODULE Spec2Model ----
(***************************************************************************)
(* Model of src/server.py: the HyperLiquid tool server.                    *)
(*                                                                         *)
(* The module body (lines 18-58) resolves the signing identity and builds  *)
(* the two upstream clients; afterwards the nine tools are served.  Every  *)
(* tool is an `async def` whose body holds no suspension point (the SDK    *)
(* calls are blocking and the one `await`, of get_mid_price, awaits a      *)
(* coroutine that never suspends), so the event loop runs each handler to  *)
(* completion: one handler is one action, and invocations interleave as    *)
(* arbitrary sequences of handlers.                                        *)
(*                                                                         *)
(* Python floats are modelled as records: finite values are exact          *)
(* fixed-point numbers counted in 1/Unit, and the values float() yields    *)
(* outside that range keep their IEEE-754 behaviour (nan, inf, and the     *)
(* smallest subnormal "tiny", which a 5% offset rounds back to itself).    *)
(***************************************************************************)
EXTENDS Integers, Sequences, FiniteSets, TLC

VARIABLES
    pc,            \* position of the module body: "resolve_key", "setup_clients", "serving", "crashed"
    private_key,   \* os.environ.get("HYPERLIQUID_PRIVATE_KEY"), by kind
    is_key_valid,
    hl_account,
    user_address,
    hl_exchange,
    inv            \* the tool invocation being reported: its request, upstream calls and result

vars == <<pc, private_key, is_key_valid, hl_account, user_address, hl_exchange, inv>>

identity == <<is_key_valid, hl_account, user_address, hl_exchange>>

(***************************************************************************)
(* Bounds of the model.                                                    *)
(***************************************************************************)
MaxPrice == 2      \* finite prices range over -1 .. MaxPrice (whole units)
MaxSize == 1       \* order sizes range over -1 .. MaxSize
MaxOid == 1        \* order ids range over -1 .. MaxOid

(***************************************************************************)
(* Floats.                                                                 *)
(***************************************************************************)
Unit == 100 * 100

Fin(n) == [cls |-> "finite", v |-> n]
NaN == [cls |-> "nan", v |-> 0]
Inf == [cls |-> "inf", v |-> 0]
Tiny == [cls |-> "tiny", v |-> 0]

Num(k) == Fin(k * Unit)

\* x <= 0 as Python evaluates it: false for nan
FLe0(x) == x.cls = "finite" /\ x.v <= 0

\* x > 0
FGt0(x) == \/ x.cls \in {"inf", "tiny"}
           \/ x.cls = "finite" /\ x.v > 0

\* a > b
FGt(a, b) ==
    CASE a.cls = "nan" \/ b.cls = "nan" -> FALSE
      [] a.cls = "inf" -> b.cls # "inf"
      [] b.cls = "inf" -> FALSE
      [] a.cls = "tiny" -> b.cls = "finite" /\ b.v <= 0
      [] b.cls = "tiny" -> a.cls = "finite" /\ a.v > 0
      [] OTHER -> a.v > b.v

\* x * (num / den) for a factor close to 1
FMul(x, num, den) ==
    IF x.cls = "finite" THEN Fin((x.v * num) \div den) ELSE x


(***************************************************************************)
(* Module body: identity resolution and client setup.                      *)
(***************************************************************************)
KEY_UNSET == "<unset>"
DEFAULT_ADDRESS == "0x000000000000000000000000000000000000DEAD"
DERIVED_ADDRESS == "0xDerivedFromKey"

\* values HYPERLIQUID_PRIVATE_KEY can hold
KeyInputs == {KEY_UNSET, "", "GOOD", "0xGOOD", "0XGOOD", "0xZZ", "0x12"}

\* private_key.lower().replace('0x', '')
KeyBytes(key) ==
    CASE key \in {"GOOD", "0xGOOD", "0XGOOD"} -> "good"
      [] key = "0xZZ" -> "zz"
      [] key = "0x12" -> "12"
      [] OTHER -> key

\* Account.from_key: the outcomes the call can have for the key bytes
FromKey(key_bytes) ==
    IF key_bytes = "good" THEN {"ok"} ELSE {"ValueError", "Exception"}

\* Exchange(hl_account): the outcomes of the constructor
ExchangeCtor == {"ok", "TypeError", "Error"}

NoReq ==
    [coin |-> "", is_buy |-> FALSE, size |-> Fin(0), reduce_only |-> FALSE,
     limit_price |-> Fin(0), time_in_force |-> "", order_id |-> 0]

RetBase ==
    [kind |-> "", status |-> "", error |-> "", exc |-> "", exchange_error |-> "",
     tx_hash |-> "", order_id |-> {}, val |-> Fin(0), bid |-> Fin(0), ask |-> Fin(0),
     side |-> "", data |-> "", items |-> <<>>]

\* the handler's local mid_price before it is read
NoMid == [exc |-> "<unread>", val |-> Fin(0)]

NoInv == [tool |-> "", req |-> NoReq, calls |-> <<>>, mid_price |-> NoMid, ret |-> RetBase]

Init ==
    /\ pc = "resolve_key"
    /\ private_key \in KeyInputs
    /\ is_key_valid = TRUE
    /\ hl_account = "None"
    /\ user_address = DEFAULT_ADDRESS
    /\ hl_exchange = "unset"
    /\ inv = NoInv

\* a failed from_key that leaves is_key_valid set
ResolveKeyStepFlagKept(outcome) ==
    IF outcome = "ok"
    THEN /\ hl_account' = "Account"
         /\ user_address' = DERIVED_ADDRESS
         /\ UNCHANGED is_key_valid
    ELSE UNCHANGED <<is_key_valid, hl_account, user_address>>

\* lines 27-42
ResolveKeyStep(outcome) ==
    IF outcome = "ok"
    THEN /\ hl_account' = "Account"
         /\ user_address' = DERIVED_ADDRESS
         /\ UNCHANGED is_key_valid
    ELSE /\ is_key_valid' = FALSE
         /\ UNCHANGED <<hl_account, user_address>>

ResolveKey ==
    /\ pc = "resolve_key"
    /\ IF private_key \in {KEY_UNSET, ""}
       THEN /\ is_key_valid' = FALSE
            /\ UNCHANGED <<hl_account, user_address>>
       ELSE \E outcome \in FromKey(KeyBytes(private_key)) : ResolveKeyStep(outcome)
    /\ pc' = "setup_clients"
    /\ UNCHANGED <<private_key, hl_exchange, inv>>

\* lines 46-58; Info() is taken to succeed ("Info client is always safe")
SetupClients ==
    /\ pc = "setup_clients"
    /\ IF is_key_valid
       THEN \E outcome \in ExchangeCtor :
                CASE outcome = "ok" ->
                         /\ hl_exchange' = "Exchange"
                         /\ pc' = "serving"
                         /\ UNCHANGED is_key_valid
                  [] outcome = "TypeError" ->
                         /\ hl_exchange' = "None"
                         /\ is_key_valid' = FALSE
                         /\ pc' = "serving"
                  [] OTHER ->
                         /\ pc' = "crashed"
                         /\ UNCHANGED <<hl_exchange, is_key_valid>>
       ELSE /\ hl_exchange' = "None"
            /\ pc' = "serving"
            /\ UNCHANGED is_key_valid
    /\ UNCHANGED <<private_key, hl_account, user_address, inv>>

(***************************************************************************)
(* Upstream payloads.                                                      *)
(***************************************************************************)
Coins == {"btc", "BTC"}

\* str.upper()
Upper(coin) == IF coin = "btc" THEN "BTC" ELSE coin

Prices == (0 - 1) .. MaxPrice
Floats == {Num(k) : k \in Prices} \cup {NaN, Inf, Tiny}

\* one value of the all_mids map: a missing key, JSON null, text that is no
\* number, a list, an integer too large for a float, or a number
Entry(t, f) == [t |-> t, f |-> f]
EAbsent == Entry("absent", Fin(0))
Entries ==
    {Entry(t, Fin(0)) : t \in {"absent", "null", "junk", "list", "huge"}}
        \cup {Entry("num", f) : f \in Floats}

MidKeys == {"BTC", "btc"}

MidsPayloads ==
    {[shape |-> s, d |-> [k \in MidKeys |-> EAbsent]] : s \in {"raise", "notdict"}}
        \cup {[shape |-> "dict", d |-> d] : d \in [MidKeys -> Entries]}

\* a value or the exception that ended the computation
Ok(f) == [exc |-> "", val |-> f]
Exc(e) == [exc |-> e, val |-> Fin(0)]

\* float(price_str)
PyFloat(e) ==
    CASE e.t = "num" -> Ok(e.f)
      [] e.t = "junk" -> Exc("ValueError")
      [] e.t = "huge" -> Exc("OverflowError")
      [] OTHER -> Exc("TypeError")

\* mids_dict.get(coin_symbol)
DictGet(d, k) == IF k \in DOMAIN d /\ d[k].t # "absent" THEN d[k] ELSE Entry("null", Fin(0))

\* lines 118-139: the value get_mid_price returns, or the exception it raises
get_mid_price(coin, mids) ==
    IF mids.shape = "raise" THEN Exc("UpstreamError")
    ELSE IF mids.shape # "dict" THEN Ok(Num(0 - 1))
    ELSE LET price_str == DictGet(mids.d, Upper(coin)) IN
         IF price_str.t = "null" THEN Ok(Num(0))
         ELSE LET r == PyFloat(price_str) IN
              IF r.exc \in {"ValueError", "TypeError"} THEN Ok(Num(0 - 2)) ELSE r


(***************************************************************************)
(* Exchange responses: what order, cancel and cancel_all can hand back.    *)
(***************************************************************************)
NONE == "None"
ErrorValues == {"Insufficient margin", "Order must have minimum value"}
Hashes == {NONE, "", "0xabc"}
Oids == (0 - 1) .. MaxOid

Status(t, error, oid) == [t |-> t, error |-> error, oid |-> oid]
NoStatus == Status("", "", 0)

\* the first entry of response.data.statuses: a map with an error field, a
\* map with a resting order id, a map with a fill, or plain text
FirstStatuses ==
    {Status("errdict", e, 0) : e \in ErrorValues}
        \cup {Status("resting", "", oid) : oid \in 1 .. MaxOid}
        \cup {Status("filled", "", 0), Status("okstr", "", 0), Status("errstr", "", 0)}

XResp(shape, response, hash, statuses, first) ==
    [shape |-> shape, response |-> response, hash |-> hash, statuses |-> statuses,
     first |-> first]

ExchangeResponses ==
    {XResp("raise", "", NONE, "", NoStatus), XResp("notdict", "", NONE, "", NoStatus),
     XResp("dict", "absent", NONE, "", NoStatus), XResp("dict", "str", NONE, "", NoStatus)}
        \cup {XResp("dict", "dict", h, st, NoStatus) : h \in Hashes, st \in {"absent", "empty"}}
        \cup {XResp("dict", "dict", h, "list", f) : h \in Hashes, f \in FirstStatuses}

\* result.get('response', {}).get('hash')
TxHash(result) ==
    IF result.shape # "dict" \/ result.response = "str"
    THEN [exc |-> "AttributeError", hash |-> NONE]
    ELSE [exc |-> "", hash |-> result.hash]

\* result.get('response', {}).get('data', {}).get('statuses', [{}])[0]
StatusData(result) ==
    CASE result.shape # "dict" \/ result.response = "str" ->
             [exc |-> "AttributeError", first |-> NoStatus]
      [] result.response = "absent" \/ result.statuses = "absent" ->
             [exc |-> "", first |-> Status("emptydict", "", 0)]
      [] result.statuses = "empty" -> [exc |-> "IndexError", first |-> NoStatus]
      [] OTHER -> [exc |-> "", first |-> result.first]

\* 'error' in status_data
HasError(status_data) == status_data.t \in {"errdict", "errstr"}

(***************************************************************************)
(* Upstream calls and tool results.                                        *)
(***************************************************************************)
NoArg ==
    [coin |-> "", is_buy |-> FALSE, sz |-> Fin(0), limit_px |-> Fin(0), order_type |-> "",
     reduce_only |-> FALSE, oid |-> 0, address |-> ""]

Call(api, arg, resp) == [api |-> api, arg |-> arg, resp |-> resp]

WriteApis == {"order", "cancel", "cancel_all"}

DISABLED ==
    "Trading is disabled. Private key is invalid or Exchange client failed to initialize."
NO_PRICE == "Could not retrieve valid market price to use for the order."

Raised(e) == [RetBase EXCEPT !.kind = "raise", !.exc = e]
ValidationError == [RetBase EXCEPT !.kind = "validation_error"]
ErrorPayload(msg, e) == [RetBase EXCEPT !.kind = "error", !.error = msg, !.exc = e]
Failed(e) == [RetBase EXCEPT !.kind = "status", !.status = "failed", !.exchange_error = e]

Side(is_buy) == IF is_buy THEN "BUY" ELSE "SELL"

Invocation(tool, req, calls, mid_price, ret) ==
    [tool |-> tool, req |-> req, calls |-> calls, mid_price |-> mid_price, ret |-> ret]

\* the guard left out of the trading tools
TradingNeverDisabled == FALSE

\* `if not is_key_valid or not hl_exchange`
TradingDisabled == ~is_key_valid \/ hl_exchange # "Exchange"

\* a method call on hl_exchange that is sent again when it fails
ExchangeCallRetried(api, arg, resp) ==
    IF hl_exchange # "Exchange"
    THEN [calls |-> <<>>, exc |-> "AttributeError"]
    ELSE [calls |-> IF resp.shape = "raise"
                    THEN <<Call(api, arg, resp), Call(api, arg, resp)>>
                    ELSE <<Call(api, arg, resp)>>,
          exc |-> IF resp.shape = "raise" THEN "UpstreamError" ELSE ""]

\* a method call on hl_exchange: the calls it puts on the wire and the
\* exception it ends with, if any
ExchangeCall(api, arg, resp) ==
    IF hl_exchange # "Exchange"
    THEN [calls |-> <<>>, exc |-> "AttributeError"]
    ELSE [calls |-> <<Call(api, arg, resp)>>,
          exc |-> IF resp.shape = "raise" THEN "UpstreamError" ELSE ""]


(***************************************************************************)
(* Tool inputs (lines 63-82).                                              *)
(***************************************************************************)
SizeInputs == {Num(k) : k \in (0 - 1) .. MaxSize}
PriceInputs == {Num(k) : k \in Prices}
TifInputs == {"Gtc", "Ioc", "Alo", "Fok"}

MarketOrderInputs ==
    {[NoReq EXCEPT !.coin = c, !.is_buy = b, !.size = sz, !.reduce_only = ro] :
        c \in Coins, b \in BOOLEAN, sz \in SizeInputs, ro \in BOOLEAN}

LimitOrderInputs ==
    {[o EXCEPT !.limit_price = px, !.time_in_force = tif] :
        o \in MarketOrderInputs, px \in PriceInputs, tif \in TifInputs}

CancelOrderInputs ==
    {[NoReq EXCEPT !.coin = c, !.order_id = oid] : c \in Coins, oid \in Oids}

\* size: gt=0
MarketOrderInput(order) == FGt0(order.size)

\* limit_price declared ge=0 instead of gt=0
LimitOrderInputPriceGe0(order) ==
    /\ FGt0(order.size)
    /\ ~FGt(Fin(0), order.limit_price)
    /\ order.time_in_force \in {"Gtc", "Ioc", "Alo"}

\* size: gt=0, limit_price: gt=0, time_in_force: Literal["Gtc", "Ioc", "Alo"]
LimitOrderInput(order) ==
    /\ FGt0(order.size)
    /\ FGt0(order.limit_price)
    /\ order.time_in_force \in {"Gtc", "Ioc", "Alo"}

\* order_id: gt=0
CancelOrderInput(cancel_input) == cancel_input.order_id > 0

(***************************************************************************)
(* Read-only tools.                                                        *)
(***************************************************************************)
UserStateResponses == {[shape |-> "raise", data |-> ""], [shape |-> "dict", data |-> "snapshot"]}

\* lines 104-114
get_user_state(resp) ==
    Invocation("get_user_state", NoReq,
               <<Call("user_state", [NoArg EXCEPT !.address = user_address], resp)>>,
               NoMid,
               IF resp.shape = "raise" THEN Raised("UpstreamError")
               ELSE [RetBase EXCEPT !.kind = "state", !.data = resp.data])

\* lines 118-139 as a tool
get_mid_price_tool(coin, mids) ==
    LET m == get_mid_price(coin, mids) IN
    Invocation("get_mid_price", [NoReq EXCEPT !.coin = coin],
               <<Call("all_mids", NoArg, mids)>>, m,
               IF m.exc # "" THEN Raised(m.exc)
               ELSE [RetBase EXCEPT !.kind = "float", !.val = m.val])

\* lines 149-166: the body of the try
order_book_body(coin, mids) ==
    CASE mids.shape = "raise" -> Exc("UpstreamError")
      [] mids.shape # "dict" -> Exc("AttributeError")
      [] OTHER ->
           LET price_str == DictGet(mids.d, Upper(coin)) IN
           IF price_str.t = "null" THEN Exc("<not found>") ELSE PyFloat(price_str)

\* lines 143-169
get_order_book(coin, mids) ==
    LET r == order_book_body(coin, mids) IN
    Invocation("get_order_book", [NoReq EXCEPT !.coin = coin],
               <<Call("all_mids", NoArg, mids)>>, NoMid,
               CASE r.exc = "<not found>" -> ErrorPayload("not found in current market data", "")
                 [] r.exc # "" -> ErrorPayload("Failed to retrieve price data", r.exc)
                 [] OTHER ->
                      [RetBase EXCEPT !.kind = "book", !.data = Upper(coin), !.val = r.val,
                                      !.bid = FMul(r.val, 9999, 10000),
                                      !.ask = FMul(r.val, 10001, 10000)])

\* an open order as upstream reports it
OrderRows ==
    {[side |-> sd, limitPx |-> px, sz |-> sz] :
        sd \in {"B", "A"}, px \in {Entry("num", Num(1)), Entry("null", Fin(0))},
        sz \in {Entry("num", Num(1)), Entry("junk", Fin(0))}}

OpenOrdersResponses ==
    {[shape |-> "raise", orders |-> <<>>], [shape |-> "list", orders |-> <<>>]}
        \cup {[shape |-> "list", orders |-> <<a>>] : a \in OrderRows}
        \cup {[shape |-> "list", orders |-> <<a, b>>] : a \in OrderRows, b \in OrderRows}

\* lines 186-194
clean_order(order) ==
    [side |-> IF order.side = "B" THEN "BUY" ELSE "SELL",
     limit_price |-> PyFloat(order.limitPx).val, size |-> PyFloat(order.sz).val]

\* the first exception the loop over the orders meets, "" when there is none
clean_orders_exc(orders) ==
    IF \A i \in 1 .. Len(orders) :
           PyFloat(orders[i].limitPx).exc = "" /\ PyFloat(orders[i].sz).exc = ""
    THEN ""
    ELSE LET i == CHOOSE j \in 1 .. Len(orders) :
                      /\ PyFloat(orders[j].limitPx).exc # "" \/ PyFloat(orders[j].sz).exc # ""
                      /\ \A k \in 1 .. (j - 1) :
                             PyFloat(orders[k].limitPx).exc = "" /\ PyFloat(orders[k].sz).exc = ""
         IN IF PyFloat(orders[i].limitPx).exc # "" THEN PyFloat(orders[i].limitPx).exc
            ELSE PyFloat(orders[i].sz).exc

\* lines 173-204
get_open_orders(resp) ==
    Invocation("get_open_orders", NoReq,
               <<Call("open_orders", [NoArg EXCEPT !.address = user_address], resp)>>,
               NoMid,
               CASE resp.shape = "raise" ->
                        ErrorPayload("Failed to retrieve open orders", "UpstreamError")
                 [] resp.orders = <<>> ->
                        [RetBase EXCEPT !.kind = "status", !.status = "success"]
                 [] clean_orders_exc(resp.orders) # "" ->
                        ErrorPayload("Failed to retrieve open orders",
                                     clean_orders_exc(resp.orders))
                 [] OTHER ->
                        [RetBase EXCEPT !.kind = "status", !.status = "success",
                                        !.items = [i \in 1 .. Len(resp.orders) |->
                                                      clean_order(resp.orders[i])]])

\* an entry of the instrument universe
Assets ==
    {[name |-> "BTC", type |-> "perp"], [name |-> "PURR", type |-> "spot"],
     [name |-> NONE, type |-> "perp"]}

MetaResponses ==
    {[shape |-> sh, universe |-> <<>>] : sh \in {"raise", "notdict", "dict"}}
        \cup {[shape |-> "dict", universe |-> <<a>>] : a \in Assets}
        \cup {[shape |-> "dict", universe |-> <<a, b>>] : a \in Assets, b \in Assets}

perp_asset(asset) == asset.type = "perp"

\* lines 208-230
get_all_perpetual_markets(metadata) ==
    LET perps == SelectSeq(metadata.universe, perp_asset) IN
    Invocation("get_all_perpetual_markets", NoReq, <<Call("meta", NoArg, metadata)>>, NoMid,
               CASE metadata.shape = "raise" ->
                        ErrorPayload("Failed to retrieve market list", "UpstreamError")
                 [] metadata.shape # "dict" ->
                        ErrorPayload("Failed to retrieve market list", "AttributeError")
                 [] \E i \in 1 .. Len(perps) : perps[i].name = NONE ->
                        ErrorPayload("Failed to retrieve market list", "KeyError")
                 [] OTHER ->
                        [RetBase EXCEPT !.kind = "status", !.status = "success",
                                        !.items = [i \in 1 .. Len(perps) |-> perps[i].name]])


(***************************************************************************)
(* Trading tools.                                                          *)
(***************************************************************************)
\* lines 262-273: the result of a market order the exchange answered
market_order_result(order, result) ==
    LET sd == StatusData(result) IN
    CASE sd.exc # "" -> ErrorPayload("Failed to place order", sd.exc)
      [] sd.first.t = "errstr" -> ErrorPayload("Failed to place order", "TypeError")
      [] HasError(sd.first) -> Failed(sd.first.error)
      [] OTHER ->
           [RetBase EXCEPT !.kind = "status", !.status = "success",
                           !.side = Side(order.is_buy), !.val = order.size,
                           !.tx_hash = TxHash(result).hash]

\* the two offsets applied to the wrong sides
market_limit_px_swapped(mid_price, is_buy) ==
    FMul(mid_price, IF is_buy THEN 95 ELSE 105, 100)

\* line 251
market_limit_px(mid_price, is_buy) ==
    FMul(mid_price, IF is_buy THEN 105 ELSE 95, 100)

\* lines 236-277
place_market_order(order, mids, result) ==
    IF TradingDisabled
    THEN Invocation("place_market_order", order, <<>>, NoMid, ErrorPayload(DISABLED, ""))
    ELSE LET mid_price == get_mid_price(order.coin, mids)
             read == <<Call("all_mids", NoArg, mids)>>
         IN
         CASE mid_price.exc # "" ->
                  Invocation("place_market_order", order, read, mid_price,
                             ErrorPayload("Failed to place order", mid_price.exc))
           [] FLe0(mid_price.val) ->
                  Invocation("place_market_order", order, read, mid_price,
                             ErrorPayload(NO_PRICE, ""))
           [] OTHER ->
                  LET x == ExchangeCall("order",
                                        [NoArg EXCEPT !.coin = Upper(order.coin),
                                                      !.is_buy = order.is_buy,
                                                      !.sz = order.size,
                                                      !.limit_px = market_limit_px(mid_price.val,
                                                                                   order.is_buy),
                                                      !.order_type = "market",
                                                      !.reduce_only = order.reduce_only],
                                        result)
                  IN Invocation("place_market_order", order, read \o x.calls, mid_price,
                                IF x.exc # "" THEN ErrorPayload("Failed to place order", x.exc)
                                ELSE market_order_result(order, result))

\* lines 300-313: the result of a limit order the exchange answered
limit_order_result(order, result) ==
    LET sd == StatusData(result) IN
    CASE sd.exc # "" -> ErrorPayload("Failed to place limit order", sd.exc)
      [] sd.first.t = "errstr" -> ErrorPayload("Failed to place limit order", "TypeError")
      [] HasError(sd.first) -> Failed(sd.first.error)
      [] sd.first.t = "okstr" -> ErrorPayload("Failed to place limit order", "AttributeError")
      [] OTHER ->
           [RetBase EXCEPT !.kind = "status", !.status = "success",
                           !.side = Side(order.is_buy),
                           !.order_id = IF sd.first.t = "resting" THEN {sd.first.oid} ELSE {},
                           !.tx_hash = TxHash(result).hash]

\* lines 281-317
place_limit_order(order, result) ==
    IF TradingDisabled
    THEN Invocation("place_limit_order", order, <<>>, NoMid, ErrorPayload(DISABLED, ""))
    ELSE LET x == ExchangeCall("order",
                               [NoArg EXCEPT !.coin = Upper(order.coin),
                                             !.is_buy = order.is_buy,
                                             !.sz = order.size,
                                             !.limit_px = order.limit_price,
                                             !.order_type = order.time_in_force,
                                             !.reduce_only = order.reduce_only],
                               result)
         IN Invocation("place_limit_order", order, x.calls, NoMid,
                       IF x.exc # "" THEN ErrorPayload("Failed to place limit order", x.exc)
                       ELSE limit_order_result(order, result))

\* a missing hash reported as an error
cancel_all_result_strict(result) ==
    LET tx_hash == TxHash(result) IN
    CASE tx_hash.exc # "" -> ErrorPayload("Failed to execute cancel_all", tx_hash.exc)
      [] tx_hash.hash \notin {NONE, ""} ->
           [RetBase EXCEPT !.kind = "status", !.status = "success", !.tx_hash = tx_hash.hash]
      [] OTHER -> ErrorPayload("Failed to execute cancel_all", "")

\* lines 332-344: the result of a bulk cancel the exchange answered
cancel_all_result(result) ==
    LET tx_hash == TxHash(result) IN
    CASE tx_hash.exc # "" -> ErrorPayload("Failed to execute cancel_all", tx_hash.exc)
      [] tx_hash.hash \notin {NONE, ""} ->
           [RetBase EXCEPT !.kind = "status", !.status = "success", !.tx_hash = tx_hash.hash]
      [] OTHER -> [RetBase EXCEPT !.kind = "status", !.status = "warning"]

\* lines 321-348
cancel_all_orders(result) ==
    IF TradingDisabled
    THEN Invocation("cancel_all_orders", NoReq, <<>>, NoMid, ErrorPayload(DISABLED, ""))
    ELSE LET x == ExchangeCall("cancel_all", NoArg, result)
         IN Invocation("cancel_all_orders", NoReq, x.calls, NoMid,
                       IF x.exc # "" THEN ErrorPayload("Failed to execute cancel_all", x.exc)
                       ELSE cancel_all_result(result))

\* lines 366-377: the result of a cancel the exchange answered
cancel_result(cancel_input, result) ==
    LET sd == StatusData(result) IN
    CASE sd.exc # "" -> ErrorPayload("Failed to cancel order", sd.exc)
      [] sd.first.t = "errstr" -> ErrorPayload("Failed to cancel order", "TypeError")
      [] HasError(sd.first) -> Failed(sd.first.error)
      [] OTHER ->
           [RetBase EXCEPT !.kind = "status", !.status = "success",
                           !.order_id = {cancel_input.order_id},
                           !.tx_hash = TxHash(result).hash]

\* lines 352-381
cancel_order_by_id(cancel_input, result) ==
    IF TradingDisabled
    THEN Invocation("cancel_order_by_id", cancel_input, <<>>, NoMid, ErrorPayload(DISABLED, ""))
    ELSE LET x == ExchangeCall("cancel",
                               [NoArg EXCEPT !.coin = Upper(cancel_input.coin),
                                             !.oid = cancel_input.order_id],
                               result)
         IN Invocation("cancel_order_by_id", cancel_input, x.calls, NoMid,
                       IF x.exc # "" THEN ErrorPayload("Failed to cancel order", x.exc)
                       ELSE cancel_result(cancel_input, result))

(***************************************************************************)
(* The tool surface: one action per tool.  A request is checked against    *)
(* the tool's input model before the handler runs; a rejected request      *)
(* never reaches the handler.                                              *)
(***************************************************************************)
Rejected(tool, req) == Invocation(tool, req, <<>>, NoMid, ValidationError)

\* the server is up and takes the next request
Idle == pc = "serving" /\ inv = NoInv

Serve(record) ==
    /\ inv' = record
    /\ UNCHANGED <<pc, private_key, is_key_valid, hl_account, user_address, hl_exchange>>

GetUserState ==
    /\ Idle
    /\ \E resp \in UserStateResponses : Serve(get_user_state(resp))

GetMidPrice ==
    /\ Idle
    /\ \E coin \in Coins, mids \in MidsPayloads : Serve(get_mid_price_tool(coin, mids))

GetOrderBook ==
    /\ Idle
    /\ \E coin \in Coins, mids \in MidsPayloads : Serve(get_order_book(coin, mids))

GetOpenOrders ==
    /\ Idle
    /\ \E resp \in OpenOrdersResponses : Serve(get_open_orders(resp))

GetAllPerpetualMarkets ==
    /\ Idle
    /\ \E metadata \in MetaResponses : Serve(get_all_perpetual_markets(metadata))

PlaceMarketOrder ==
    /\ Idle
    /\ \E order \in MarketOrderInputs :
           IF MarketOrderInput(order)
           THEN \E mids \in MidsPayloads, result \in ExchangeResponses :
                    Serve(place_market_order(order, mids, result))
           ELSE Serve(Rejected("place_market_order", order))

PlaceLimitOrder ==
    /\ Idle
    /\ \E order \in LimitOrderInputs :
           IF LimitOrderInput(order)
           THEN \E result \in ExchangeResponses : Serve(place_limit_order(order, result))
           ELSE Serve(Rejected("place_limit_order", order))

CancelAllOrders ==
    /\ Idle
    /\ \E result \in ExchangeResponses : Serve(cancel_all_orders(result))

CancelOrderById ==
    /\ Idle
    /\ \E cancel_input \in CancelOrderInputs :
           IF CancelOrderInput(cancel_input)
           THEN \E result \in ExchangeResponses :
                    Serve(cancel_order_by_id(cancel_input, result))
           ELSE Serve(Rejected("cancel_order_by_id", cancel_input))

\* the result goes back to the caller and the next request is taken
Return ==
    /\ pc = "serving"
    /\ inv # NoInv
    /\ inv' = NoInv
    /\ UNCHANGED <<pc, private_key, is_key_valid, hl_account, user_address, hl_exchange>>

Next ==
    \/ ResolveKey
    \/ SetupClients
    \/ GetUserState
    \/ GetMidPrice
    \/ GetOrderBook
    \/ GetOpenOrders
    \/ GetAllPerpetualMarkets
    \/ PlaceMarketOrder
    \/ PlaceLimitOrder
    \/ CancelAllOrders
    \/ CancelOrderById
    \/ Return

Spec == Init /\ [][Next]_vars


(***************************************************************************)
(* Properties.                                                             *)
(***************************************************************************)
WriteTools == {"place_market_order", "place_limit_order", "cancel_all_orders", "cancel_order_by_id"}
ReadTools ==
    {"get_user_state", "get_mid_price", "get_order_book", "get_open_orders",
     "get_all_perpetual_markets"}

\* the exchange write calls among the upstream calls of an invocation
WriteCalls(calls) == {i \in 1 .. Len(calls) : calls[i].api \in WriteApis}

\* the handler ran: the request passed the input model
BodyRan == inv.tool # "" /\ inv.ret.kind # "validation_error"

\* the answer of the exchange to the write call of the invocation
Answer == inv.calls[Len(inv.calls)].resp

Answered == WriteCalls(inv.calls) # {} /\ Answer.shape # "raise"

\* the key is missing or malformed
KeyBad == private_key \in {KEY_UNSET, "", "0xZZ", "0x12"}

\* C1: without a valid signing identity (is_key_valid false or no exchange
\* client) a trading tool makes no upstream call at all, and whenever its
\* body runs it returns the disabled-trading error.
C1_DisabledTradingNoCalls ==
    (inv.tool \in WriteTools /\ (~is_key_valid \/ hl_exchange = "None")) =>
        /\ inv.calls = <<>>
        /\ BodyRan => inv.ret = ErrorPayload(DISABLED, "")

C1_Witness ==
    /\ inv.tool = "place_market_order"
    /\ ~is_key_valid
    /\ inv.ret.error = DISABLED

\* C2: no tool invocation ends with a raw exception; every upstream fault
\* becomes a structured error payload.
C2_NoRawException == inv.ret.kind # "raise"

\* C3: a write operation whose upstream call returned with an error field in
\* the first entry of response.data.statuses returns status "failed" with
\* that error value.
C3_ErrorStatusFails ==
    (/\ inv.tool \in WriteTools
     /\ Answered
     /\ Answer.shape = "dict" /\ Answer.response = "dict"
     /\ Answer.statuses = "list" /\ Answer.first.t = "errdict") =>
        /\ inv.ret.kind = "status"
        /\ inv.ret.status = "failed"
        /\ inv.ret.exchange_error = Answer.first.error

\* C4: place_market_order sends an order only after a mid-price lookup that
\* returned a value strictly greater than 0.
C4_SubmitOnlyOnPositiveMid ==
    (inv.tool = "place_market_order" /\ WriteCalls(inv.calls) # {}) =>
        /\ inv.mid_price.exc = ""
        /\ FGt0(inv.mid_price.val)

\* C5: a request with a non-positive size, limit price or order id is
\* rejected by the input model and makes no upstream call, with or without
\* a valid identity.
C5_NonPositiveInputsRejected ==
    (\/ inv.tool \in {"place_market_order", "place_limit_order"} /\ FLe0(inv.req.size)
     \/ inv.tool = "place_limit_order" /\ FLe0(inv.req.limit_price)
     \/ inv.tool = "cancel_order_by_id" /\ inv.req.order_id <= 0) =>
        /\ inv.ret.kind = "validation_error"
        /\ inv.calls = <<>>

C5_Witness ==
    /\ is_key_valid /\ hl_exchange = "Exchange"
    /\ inv.tool = "place_limit_order"
    /\ FGt0(inv.req.size)
    /\ inv.req.limit_price = Num(0)
    /\ inv.ret.kind = "validation_error"

\* C6: when all_mids returns, get_mid_price never raises and yields -1 for a
\* payload that is no map, 0 for a map without an entry for the upper-cased
\* symbol, -2 for an entry that is no number, and the entry's value otherwise.
C6_MidPriceOutcomes ==
    (inv.tool = "get_mid_price" /\ inv.calls[1].resp.shape # "raise") =>
        LET mids == inv.calls[1].resp
            entry == mids.d[Upper(inv.req.coin)]
        IN /\ inv.ret.kind = "float"
           /\ mids.shape # "dict" => inv.ret.val = Num(0 - 1)
           /\ (mids.shape = "dict" /\ entry.t = "absent") => inv.ret.val = Num(0)
           /\ (mids.shape = "dict" /\ entry.t \in {"null", "junk", "list"}) =>
                  inv.ret.val = Num(0 - 2)
           /\ (mids.shape = "dict" /\ entry.t = "num") => inv.ret.val = entry.f

\* limit_px is mid * pct / 100
Offset(limit_px, mid, pct) ==
    IF mid.cls = "finite"
    THEN limit_px.cls = "finite" /\ limit_px.v * 100 = mid.v * pct
    ELSE limit_px = mid

\* the order a market invocation sent carries the upper-cased symbol, the
\* request's size and reduce_only flag, the market tag, and the mid read for
\* that symbol offset by 5% towards the taker's side
MarketOrderSent(order, mid) ==
    /\ order.coin = Upper(inv.req.coin)
    /\ order.is_buy = inv.req.is_buy
    /\ order.sz = inv.req.size
    /\ order.reduce_only = inv.req.reduce_only
    /\ order.order_type = "market"
    /\ Offset(order.limit_px, mid, IF inv.req.is_buy THEN 105 ELSE 95)

\* the submitted price lies strictly on the taker's side of mid
StrictlyBeyond(order, mid) ==
    IF order.is_buy THEN FGt(order.limit_px, mid) ELSE FGt(mid, order.limit_px)

MarketSubmitted == inv.tool = "place_market_order" /\ Len(inv.calls) = 2

\* the entry of the all_mids payload for the upper-cased symbol
MidRead == inv.calls[1].resp.d[Upper(inv.req.coin)]

\* C7 as stated: the submitted order carries mid * 1.05 (buy) or mid * 0.95
\* (sell), and for every positive mid that price is strictly above (buy) or
\* strictly below (sell) mid.
C7_OffsetStrictForPositiveMid ==
    MarketSubmitted =>
        /\ MidRead.t = "num"
        /\ MarketOrderSent(inv.calls[2].arg, MidRead.f)
        /\ FGt0(MidRead.f) => StrictlyBeyond(inv.calls[2].arg, MidRead.f)

\* C7 amended: the submitted order carries mid * 1.05 (buy) or mid * 0.95
\* (sell), and for every positive finite mid of normal magnitude that price
\* is strictly above (buy) or strictly below (sell) mid.
C7_OffsetStrictForFiniteMid ==
    MarketSubmitted =>
        /\ MidRead.t = "num"
        /\ MarketOrderSent(inv.calls[2].arg, MidRead.f)
        /\ (MidRead.f.cls = "finite" /\ MidRead.f.v > 0) =>
               StrictlyBeyond(inv.calls[2].arg, MidRead.f)

C7_Witness ==
    /\ MarketSubmitted
    /\ ~inv.req.is_buy
    /\ inv.req.coin = "btc"
    /\ MidRead.f = Num(MaxPrice)
    /\ inv.calls[2].arg.limit_px.v * 100 = MaxPrice * Unit * 95

\* the answer carries a hash at response.hash
HasHash == Answer.shape = "dict" /\ Answer.response = "dict" /\ Answer.hash \notin {NONE, ""}

\* the answer is map-shaped down to response and holds no hash there
MapWithoutHash ==
    /\ Answer.shape = "dict"
    /\ \/ Answer.response = "absent"
       \/ Answer.response = "dict" /\ Answer.hash \in {NONE, ""}

CancelAllAnswered == inv.tool = "cancel_all_orders" /\ Answered

\* C8 as stated: a bulk cancel the exchange answered yields "success" with
\* the hash when response.hash is present and non-empty, and "warning" when
\* the response has no hash.
C8_NoHashWarns ==
    CancelAllAnswered =>
        /\ HasHash => (inv.ret.status = "success" /\ inv.ret.tx_hash = Answer.hash)
        /\ ~(Answer.shape = "dict" /\ Answer.response = "dict" /\ Answer.hash # NONE) =>
               (inv.ret.kind = "status" /\ inv.ret.status = "warning")

\* C8 amended: a bulk cancel the exchange answered yields "success" with the
\* hash when response.hash is present and non-empty; "warning" when the
\* answer is a map whose response is missing or is a map with no hash or an
\* empty one; and an error payload when the answer or its response is no map.
C8_MapWithoutHashWarns ==
    CancelAllAnswered =>
        /\ HasHash => (inv.ret.status = "success" /\ inv.ret.tx_hash = Answer.hash)
        /\ MapWithoutHash => (inv.ret.kind = "status" /\ inv.ret.status = "warning")
        /\ (~HasHash /\ ~MapWithoutHash) => inv.ret.kind = "error"

C8_Witness ==
    /\ CancelAllAnswered
    /\ Answer.response = "dict" /\ Answer.hash = NONE
    /\ Answer.statuses = "list" /\ Answer.first.t = "okstr"
    /\ inv.ret.status = "warning"

C10_AtMostOneWrite ==
    /\ inv.tool \in WriteTools => Cardinality(WriteCalls(inv.calls)) <= 1
    /\ inv.tool \in ReadTools => WriteCalls(inv.calls) = {}

C10_Witness ==
    /\ inv.tool = "place_limit_order"
    /\ Len(inv.calls) = 1
    /\ inv.calls[1].resp.shape = "raise"
    /\ inv.ret.kind = "error"

====
